---- MODULE Spec2Model ----
(***************************************************************************)
(* banko-cli (src/main.go): JWT-bearer authentication against Box, folder  *)
(* listing, download of one random image and its rendering as coloured     *)
(* ASCII text.  The model follows main() and the functions it calls; the   *)
(* standard library (encoding/pem, crypto/x509, encoding/json, net/http,   *)
(* image, resize, rgbterm, jwt) is represented by its documented           *)
(* behaviour on abstract inputs.                                           *)
(*                                                                         *)
(* Key text is a sequence of lines.  A line is one of                      *)
(*   BEGIN l : "-----BEGIN l-----"                                         *)
(*   END l   : "-----END l-----"                                           *)
(*   B64 bs  : unpadded base64 whose bytes are the DER blobs bs, in order  *)
(*   JUNK    : text that is not base64 and starts with no PEM marker       *)
(*   GLUED   : "-----BEGIN ..." followed by more text on the same line     *)
(* and lines are separated by "\n".                                        *)
(***************************************************************************)
EXTENDS Integers, Sequences, FiniteSets, TLC

VARIABLES
    pc,             \* position of the run in main() and its callees
    exit,           \* "running", "ok" (main returned), "fatal" (log.Fatal), "panic"
    cfgFile,        \* configFile: "unopened", "nil" (os.Open failed) or "open"
    byteValue,      \* content read from the config file
    config,         \* BoxConfig (PrivateKey is the only field that decides control flow)
    parsed,         \* what parsePrivateKey returned to NewBoxClient
    privateKey,     \* BoxClient.privateKey
    signed,         \* outcome of token.SignedString: "none", "ok", "fail"
    token,          \* BoxClient.token
    tokenResp,      \* body the token endpoint answered with (history)
    requests,       \* outbound HTTP requests, in order
    bodies,         \* per operation: state of resp.Body ("none", "open", "closed")
    respBody,       \* content of the response body being read
    listResp,       \* body the folder endpoint answered with (history)
    images,         \* images returned by getImagesFromFolder
    randCalls,      \* len(images) at each call of getRandomImage
    fileID,         \* randomImage["id"]
    imgData,        \* bytes returned by downloadImage
    grid,           \* img after image.Decode and resize.Resize
    x, y,           \* loop counters of imageToASCII
    result,         \* strings.Builder of imageToASCII
    stdout,         \* what was written to standard output
    logs,           \* what was written through package log (standard error)
    pixel,          \* getASCIIChar study: the pixel (r, g, b)
    glyph           \* getASCIIChar study: index and character chosen

vars == <<pc, exit, cfgFile, byteValue, config, parsed, privateKey, signed, token,
          tokenResp, requests, bodies, respBody, listResp, images, randCalls, fileID,
          imgData, grid, x, y, result, stdout, logs, pixel, glyph>>

(***************************************************************************)
(* Bounds of the model.                                                    *)
(***************************************************************************)
MaxKeyLines == 4
MaxConfigLines == 3
MaxEntries == 2
MaxSmall == 3

(***************************************************************************)
(* Program constants.                                                      *)
(***************************************************************************)
TargetWidth == 80
AsciifyHeight == 100

\* uint32 holds v: v < 2^32.  Every integer TLC evaluates is below 2^31, so on
\* the values of this model uint32 arithmetic and integer arithmetic agree.
FitsUint32(v) == v >= 0 /\ (v \div 65536) < 65536

None == "none"

(***************************************************************************)
(* Private keys: PEM text, DER blobs.                                      *)
(***************************************************************************)
Labels == {"PRIVATE KEY", "RSA PRIVATE KEY"}

BeginLine(l) == [kind |-> "BEGIN", label |-> l, blobs |-> <<>>]
EndLine(l) == [kind |-> "END", label |-> l, blobs |-> <<>>]
B64Line(bs) == [kind |-> "B64", label |-> "", blobs |-> bs]
JunkLine == [kind |-> "JUNK", label |-> "", blobs |-> <<>>]
GluedLine == [kind |-> "GLUED", label |-> "", blobs |-> <<>>]

Pkcs1Rsa == [fmt |-> "PKCS1", alg |-> "RSA", key |-> "k1"]
Pkcs8Rsa == [fmt |-> "PKCS8", alg |-> "RSA", key |-> "k2"]
Pkcs8Ec == [fmt |-> "PKCS8", alg |-> "EC", key |-> "k3"]
Garbage == [fmt |-> "GARBAGE", alg |-> "", key |-> ""]
Blobs == {Pkcs1Rsa, Pkcs8Rsa, Pkcs8Ec, Garbage}

Lines == {BeginLine(l) : l \in Labels} \cup {EndLine(l) : l \in Labels}
           \cup {B64Line(<<b>>) : b \in Blobs} \cup {JunkLine}

SeqsUpTo(S, n) == UNION {[1..k -> S] : k \in 0..n}

KeyTexts == SeqsUpTo(Lines, MaxKeyLines)

\* bytes.HasPrefix(privateKeyPEM, []byte("-----BEGIN"))
HasBeginPrefix(text) == Len(text) > 0 /\ text[1].kind \in {"BEGIN", "GLUED"}

RECURSIVE ConcatBlobs(_)
ConcatBlobs(ls) ==
    IF ls = <<>> THEN <<>> ELSE ls[1].blobs \o ConcatBlobs(Tail(ls))

\* CleanedString.UnmarshalJSON: strings.ReplaceAll(s, "\n", "") joins the lines
CleanedString(text) ==
    IF Len(text) <= 1 THEN text
    ELSE IF HasBeginPrefix(text) THEN <<GluedLine>>
    ELSE IF \A i \in 1..Len(text) : text[i].kind = "B64"
         THEN <<B64Line(ConcatBlobs(text))>>
    ELSE <<JunkLine>>

NoBlock == [found |-> FALSE, type |-> "", bytes |-> <<>>]

\* encoding/pem Decode, resumed at line i: the first BEGIN line at or after i
\* whose next END line carries the same label and encloses only base64
RECURSIVE pemDecodeFrom(_, _)
pemDecodeFrom(text, i) ==
    LET starts == {j \in i..Len(text) : text[j].kind \in {"BEGIN", "GLUED"}}
    IN  IF starts = {} THEN NoBlock
        ELSE LET j == CHOOSE s \in starts : \A t \in starts : s <= t
                 ends == {e \in (j+1)..Len(text) : text[e].kind = "END"}
             IN  IF j = Len(text) THEN NoBlock
                 ELSE IF ends = {} THEN pemDecodeFrom(text, j + 1)
                 ELSE LET e == CHOOSE s \in ends : \A t \in ends : s <= t
                      IN  IF /\ text[j].kind = "BEGIN"
                             /\ text[e].label = text[j].label
                             /\ \A k \in (j+1)..(e-1) : text[k].kind = "B64"
                          THEN [found |-> TRUE, type |-> text[j].label,
                                bytes |-> ConcatBlobs(SubSeq(text, j + 1, e - 1))]
                          ELSE pemDecodeFrom(text, j + 1)

pemDecode(text) == pemDecodeFrom(text, 1)

\* x509.ParsePKCS1PrivateKey: exactly one PKCS1 RSAPrivateKey structure; bytes
\* after it are rejected ("trailing data")
ParsePKCS1PrivateKey(bytes) ==
    IF Len(bytes) = 1 /\ bytes[1].fmt = "PKCS1"
    THEN [ok |-> TRUE, alg |-> "RSA", key |-> bytes[1].key]
    ELSE [ok |-> FALSE, alg |-> "", key |-> "nil"]

\* x509.ParsePKCS8PrivateKey: a PrivateKeyInfo of any algorithm at the start of
\* the bytes; what asn1.Unmarshal leaves over is dropped, so bytes that follow
\* the structure are ignored
ParsePKCS8PrivateKey(bytes) ==
    IF Len(bytes) >= 1 /\ bytes[1].fmt = "PKCS8"
    THEN [ok |-> TRUE, alg |-> bytes[1].alg, key |-> bytes[1].key]
    ELSE [ok |-> FALSE, alg |-> "", key |-> "nil"]

KeyResult(k, e, t) == [key |-> k, err |-> e, tried |-> t]

\* faulty variant: the type assertion on the PKCS8 key is missing
parsePrivateKeyAnyAlg(privateKeyPEM) ==
    LET block == pemDecode(privateKeyPEM)
        p1 == ParsePKCS1PrivateKey(block.bytes)
        p8 == ParsePKCS8PrivateKey(block.bytes)
    IN  IF ~block.found
        THEN KeyResult("nil", "failed to parse PEM block containing the private key",
                       <<"pem">>)
        ELSE IF p1.ok THEN KeyResult(p1.key, None, <<"pem", "pkcs1">>)
        ELSE IF p8.ok THEN KeyResult(p8.key, None, <<"pem", "pkcs1", "pkcs8">>)
        ELSE KeyResult("nil", "failed to parse private key as PKCS1 or PKCS8",
                       <<"pem", "pkcs1", "pkcs8">>)

parsePrivateKey(privateKeyPEM) ==
    LET block == pemDecode(privateKeyPEM)
        p1 == ParsePKCS1PrivateKey(block.bytes)
        p8 == ParsePKCS8PrivateKey(block.bytes)
    IN  IF ~block.found
        THEN KeyResult("nil", "failed to parse PEM block containing the private key",
                       <<"pem">>)
        ELSE IF p1.ok THEN KeyResult(p1.key, None, <<"pem", "pkcs1">>)
        ELSE IF p8.ok
             THEN IF p8.alg # "RSA"
                  THEN KeyResult("nil", "key is not an RSA private key",
                                 <<"pem", "pkcs1", "pkcs8">>)
                  ELSE KeyResult(p8.key, None, <<"pem", "pkcs1", "pkcs8">>)
        ELSE KeyResult("nil", "failed to parse private key as PKCS1 or PKCS8",
                       <<"pem", "pkcs1", "pkcs8">>)

\* faulty variant: the synthesized header and footer carry different labels
ArmorWrapMismatch(text) ==
    IF ~HasBeginPrefix(text)
    THEN <<BeginLine("RSA PRIVATE KEY")>> \o text \o <<EndLine("PRIVATE KEY")>>
    ELSE text

\* NewBoxClient, lines 89-91
ArmorWrap(text) ==
    IF ~HasBeginPrefix(text)
    THEN <<BeginLine("PRIVATE KEY")>> \o text \o <<EndLine("PRIVATE KEY")>>
    ELSE text

(***************************************************************************)
(* HTTP responses and JSON decoding.                                       *)
(***************************************************************************)
Tokens == {"tokA", "tokB"}

TokenBody(k, f, v) == [kind |-> k, field |-> f, value |-> v]

\* bodies the token endpoint may answer with (the status code is never read)
TokenBodies ==
    {TokenBody("malformed", "", ""), TokenBody("empty", "", ""),
     TokenBody("array", "", ""), TokenBody("null", "", ""),
     TokenBody("object", "absent", ""), TokenBody("object", "null", ""),
     TokenBody("object", "number", "")}
        \cup {TokenBody(k, "string", t) : k \in {"object", "object+garbage"}, t \in Tokens}

Decoded(o, v, e) == [ok |-> o, value |-> v, err |-> e]

\* json.NewDecoder(resp.Body).Decode(&result), result.AccessToken: the decoder
\* reads the first JSON value of the stream; a missing or null field leaves ""
DecodeAccessToken(body) ==
    CASE body.kind = "malformed" -> Decoded(FALSE, "", "invalid character")
      [] body.kind = "empty" -> Decoded(FALSE, "", "EOF")
      [] body.kind = "array" -> Decoded(FALSE, "", "cannot unmarshal array")
      [] body.kind = "null" -> Decoded(TRUE, "", None)
      [] OTHER ->
           CASE body.field = "string" -> Decoded(TRUE, body.value, None)
             [] body.field = "number" -> Decoded(FALSE, "", "cannot unmarshal number")
             [] OTHER -> Decoded(TRUE, "", None)

NoId == "<no id>"
NoExt == "<no extension>"

Item(i, e) == [id |-> i, extension |-> e]

Items ==
    {Item("f1", "jpg"), Item("f2", "png"), Item(NoId, "gif"), Item("f4", "txt"),
     Item("f5", NoExt)}

ListBody(k, es) == [kind |-> k, entries |-> es]

ListBodies ==
    {ListBody("malformed", <<>>)}
        \cup {ListBody("object", es) : es \in SeqsUpTo(Items, MaxEntries)}

\* getImagesFromFolder, lines 171-178
RECURSIVE FilterImages(_)
FilterImages(entries) ==
    IF entries = <<>> THEN <<>>
    ELSE LET item == entries[1]
             ext == item.extension
         IN  IF ext # NoExt /\ (ext = "jpg" \/ ext = "jpeg" \/ ext = "png" \/ ext = "gif")
             THEN <<item>> \o FilterImages(Tail(entries))
             ELSE FilterImages(Tail(entries))

\* faulty variant: a comparison that is never true
ImagesEmptyNever(imgs) == Len(imgs) < 0

\* main, line 277: len(images) == 0
ImagesEmpty(imgs) == Len(imgs) = 0

NoAuth == [scheme |-> "", cred |-> ""]

\* faulty variant: the token is sent without the Bearer scheme
BearerHeaderBare(tok) == [scheme |-> "", cred |-> tok]

\* req.Header.Add("Authorization", "Bearer "+c.token)
BearerHeader(tok) == [scheme |-> "Bearer", cred |-> tok]

Request(o, a) == [op |-> o, auth |-> a]

\* faulty variant: the request is sent a second time
SendRequestTwice(reqs, r) == Append(Append(reqs, r), r)

\* one call of http.PostForm / http.DefaultClient.Do
SendRequest(reqs, r) == Append(reqs, r)

Ops == {"token", "list", "download"}

\* faulty variant: the body is never closed
CloseBodyLeak(bs, op) == bs

\* defer resp.Body.Close()
CloseBody(bs, op) == [bs EXCEPT ![op] = "closed"]

OpenBody(bs, op) == [bs EXCEPT ![op] = "open"]

NoBody == [kind |-> "none"]

(***************************************************************************)
(* Images and rendering.                                                   *)
(***************************************************************************)
Rgb(r, g, b) == [r |-> r, g |-> g, b |-> b]

\* 16-bit channel values as returned by color.Color.RGBA()
Palette ==
    <<Rgb(0, 0, 0), Rgb(65535, 65535, 65535), Rgb(65535, 0, 0), Rgb(0, 32768, 0),
      Rgb(7281, 7282, 7282), Rgb(43690, 43690, 43690), Rgb(257, 65535, 30000)>>

Image(k, h, s) == [kind |-> k, h |-> h, seed |-> s]

ImageFormats == {"png", "jpeg", "gif"}

\* the formats registered with package image when main runs: main.go imports
\* image but no decoder package (image/png, image/jpeg, image/gif), and neither
\* do the packages it imports
RegisteredFormats == {}

\* downloaded bytes: not an image ("bad"), or an image of some format
ImageData ==
    {Image("bad", 0, 0)} \cup {Image(f, 1, 0) : f \in ImageFormats}

\* a pixel grid: pixel (px, py) is Palette[seed + step * (px + 3 * py)], the
\* index taken modulo the palette; step 0 is a grid of one colour
Grid(w, h, s, d) == [w |-> w, h |-> h, seed |-> s, step |-> d]

\* image.Decode then resize.Resize(uint(width), 0, img, resize.Lanczos3)
DecodeResize(data, width) == Grid(width, data.h, data.seed, 1)

\* img.At(x, y).RGBA()
PixelAt(g, px, py) ==
    Palette[((g.seed + g.step * (px + 3 * py)) % Len(Palette)) + 1]

chars == <<" ", ".", ":", "-", "=", "+", "*", "#", "%", "@">>

\* avg := (r + g + b) / 3, in uint32
Average(p) == (p.r + p.g + p.b) \div 3

\* faulty variant: scaled by the length of the ramp, not by its last index
RampIndexByLength(avg) == (avg * Len(chars)) \div 65535

\* int(avg * uint32(len(chars)-1) / 65535)
RampIndex(avg) == (avg * (Len(chars) - 1)) \div 65535

getASCIIChar(avg) ==
    IF RampIndex(avg) < Len(chars) THEN chars[RampIndex(avg) + 1]
    ELSE "panic: index out of range"

Uint8(v) == v % 256

Cell(c, r, g, b) == [ch |-> c, r |-> r, g |-> g, b |-> b]

\* rgbterm.FgString(string(char), uint8(r>>8), uint8(g>>8), uint8(b>>8))
FgString(c, p) == Cell(c, Uint8(p.r \div 256), Uint8(p.g \div 256), Uint8(p.b \div 256))

LineBreak == Cell("\n", 0, 0, 0)

TextOut(t) == [kind |-> "text", text |-> t, art |-> <<>>]
ImageOut(a) == [kind |-> "image", text |-> "", art |-> a]

(***************************************************************************)
(* State.                                                                  *)
(***************************************************************************)
cfgVars == <<cfgFile, byteValue, config>>
keyVars == <<parsed, privateKey>>
authVars == <<signed, token, tokenResp>>
netVars == <<requests, bodies, respBody>>
listVars == <<listResp, images, randCalls, fileID>>
imgVars == <<imgData, grid, x, y, result>>
rampVars == <<pixel, glyph>>

ConfigFile(k, t) == [kind |-> k, key |-> t]

\* contents of ./internal/private/config.json: not JSON, the JSON value null,
\* or an object whose boxAppSettings.appAuth.privateKey is the text t
ConfigContents ==
    {ConfigFile("invalid", <<>>), ConfigFile("null", <<>>)}
        \cup {ConfigFile("object", t) : t \in SeqsUpTo(Lines, MaxConfigLines)}

BoxConfig(k) == [PrivateKey |-> k]

NoResult == KeyResult("nil", None, <<>>)

\* the process before main() runs, with the key text k in config
Start(p, k) ==
    /\ pc = p
    /\ exit = "running"
    /\ cfgFile = "unopened"
    /\ byteValue = ConfigFile("invalid", <<>>)
    /\ config = BoxConfig(k)
    /\ parsed = NoResult
    /\ privateKey = "nil"
    /\ signed = "none"
    /\ token = ""
    /\ tokenResp = NoBody
    /\ requests = <<>>
    /\ bodies = [op \in Ops |-> "none"]
    /\ respBody = NoBody
    /\ listResp = NoBody
    /\ images = <<>>
    /\ randCalls = <<>>
    /\ fileID = ""
    /\ imgData = Image("bad", 0, 0)
    /\ stdout = <<>>
    /\ logs = <<>>

NoRender == grid = Grid(0, 0, 0, 0) /\ x = 0 /\ y = 0 /\ result = <<>>

NoRamp == pixel = Rgb(0, 0, 0) /\ glyph = [idx |-> -1, ch |-> ""]

Init == Start("main_open", <<>>) /\ NoRender /\ NoRamp

\* log.Fatalf / log.Fatal: one message to the log, then os.Exit(1)
Fatalf(msg) ==
    /\ logs' = Append(logs, msg)
    /\ exit' = "fatal"
    /\ pc' = "exit"

\* a run-time panic: the process dies without writing to the log or to stdout
Panic ==
    /\ exit' = "panic"
    /\ pc' = "exit"
    /\ UNCHANGED logs

(***************************************************************************)
(* main, lines 243-264: the configuration.                                 *)
(***************************************************************************)
\* lines 243-246
MainOpenConfig ==
    /\ pc = "main_open"
    /\ \E ok \in BOOLEAN :
         /\ cfgFile' = IF ok THEN "open" ELSE "nil"
         /\ stdout' = IF ok THEN stdout
                      ELSE Append(stdout, TextOut("Error in opening config file: "))
    /\ pc' = "main_read"
    /\ UNCHANGED <<exit, byteValue, config, keyVars, authVars, netVars, listVars,
                   imgVars, logs, rampVars>>

\* lines 248-252: ioutil.ReadAll of a nil *os.File fails
MainReadConfig ==
    /\ pc = "main_read"
    /\ \E c \in ConfigContents, readOk \in BOOLEAN :
         IF cfgFile = "open" /\ readOk
         THEN byteValue' = c /\ UNCHANGED stdout
         ELSE /\ byteValue' = ConfigFile("invalid", <<>>)
              /\ stdout' = Append(stdout, TextOut("Error getting bytes from file: "))
    /\ pc' = "main_config"
    /\ UNCHANGED <<exit, cfgFile, config, keyVars, authVars, netVars, listVars,
                   imgVars, logs, rampVars>>

\* lines 254-264: json.Unmarshal's error is dropped; result stays nil unless the
\* content is a JSON object, and result.BoxAppSettings then panics
MainBuildConfig ==
    /\ pc = "main_config"
    /\ IF byteValue.kind = "object"
       THEN /\ config' = BoxConfig(CleanedString(byteValue.key))
            /\ pc' = "NewBoxClient"
            /\ UNCHANGED <<exit, logs>>
       ELSE Panic /\ UNCHANGED config
    /\ UNCHANGED <<cfgFile, byteValue, keyVars, authVars, netVars, listVars,
                   imgVars, stdout, rampVars>>

(***************************************************************************)
(* NewBoxClient and authenticate; main, lines 266-269, on their error.     *)
(***************************************************************************)
\* lines 85-103
NewBoxClientKey ==
    /\ pc = "NewBoxClient"
    /\ IF Len(config.PrivateKey) = 0
       THEN /\ Fatalf(<<"Failed to create Box client", "private key is empty">>)
            /\ UNCHANGED keyVars
       ELSE LET r == parsePrivateKey(ArmorWrap(config.PrivateKey))
            IN  /\ parsed' = r
                /\ IF r.err # None
                   THEN /\ Fatalf(<<"Failed to create Box client",
                                    "failed to parse private key", r.err>>)
                        /\ UNCHANGED privateKey
                   ELSE /\ privateKey' = r.key
                        /\ pc' = "auth_sign"
                        /\ UNCHANGED <<exit, logs>>
    /\ UNCHANGED <<cfgVars, authVars, netVars, listVars, imgVars, stdout, rampVars>>

\* lines 114-128: building and signing the assertion
AuthSign ==
    /\ pc = "auth_sign"
    /\ \E ok \in BOOLEAN :
         IF ok
         THEN /\ signed' = "ok"
              /\ pc' = "auth_post"
              /\ UNCHANGED <<exit, logs>>
         ELSE /\ signed' = "fail"
              /\ Fatalf(<<"Failed to create Box client", "failed to sign JWT",
                          "signing error">>)
    /\ UNCHANGED <<cfgVars, keyVars, token, tokenResp, netVars, listVars, imgVars,
                   stdout, rampVars>>

\* lines 131-140
AuthPost ==
    /\ pc = "auth_post"
    /\ requests' = SendRequest(requests, Request("token", NoAuth))
    /\ \/ /\ Fatalf(<<"Failed to create Box client", "failed to get access token",
                      "transport error">>)
          /\ UNCHANGED <<bodies, respBody, tokenResp>>
       \/ \E b \in TokenBodies :
            /\ bodies' = OpenBody(bodies, "token")
            /\ respBody' = b
            /\ tokenResp' = b
            /\ pc' = "auth_decode"
            /\ UNCHANGED <<exit, logs>>
    /\ UNCHANGED <<cfgVars, keyVars, signed, token, listVars, imgVars, stdout, rampVars>>

\* lines 142-150, and the deferred Close of line 140
AuthDecode ==
    /\ pc = "auth_decode"
    /\ LET d == DecodeAccessToken(respBody)
       IN  IF ~d.ok
           THEN /\ Fatalf(<<"Failed to create Box client", "failed to decode response",
                            d.err>>)
                /\ UNCHANGED token
           ELSE /\ token' = d.value
                /\ pc' = "list_request"
                /\ UNCHANGED <<exit, logs>>
    /\ bodies' = CloseBody(bodies, "token")
    /\ respBody' = NoBody
    /\ UNCHANGED <<cfgVars, keyVars, signed, tokenResp, requests, listVars, imgVars,
                   stdout, rampVars>>

(***************************************************************************)
(* getImagesFromFolder, getRandomImage, downloadImage.                     *)
(***************************************************************************)
\* lines 154-162; main, lines 273-275
ListRequest ==
    /\ pc = "list_request"
    /\ requests' = SendRequest(requests, Request("list", BearerHeader(token)))
    /\ \/ /\ Fatalf(<<"Failed to get images", "failed to get folder items",
                      "transport error">>)
          /\ UNCHANGED <<bodies, respBody, listResp>>
       \/ \E b \in ListBodies :
            /\ bodies' = OpenBody(bodies, "list")
            /\ respBody' = b
            /\ listResp' = b
            /\ pc' = "list_decode"
            /\ UNCHANGED <<exit, logs>>
    /\ UNCHANGED <<cfgVars, keyVars, authVars, images, randCalls, fileID, imgVars,
                   stdout, rampVars>>

\* lines 164-180, and the deferred Close of line 162
ListDecode ==
    /\ pc = "list_decode"
    /\ IF respBody.kind = "malformed"
       THEN /\ Fatalf(<<"Failed to get images", "failed to decode response",
                        "invalid character">>)
            /\ UNCHANGED images
       ELSE /\ images' = FilterImages(respBody.entries)
            /\ pc' = "check_images"
            /\ UNCHANGED <<exit, logs>>
    /\ bodies' = CloseBody(bodies, "list")
    /\ respBody' = NoBody
    /\ UNCHANGED <<cfgVars, keyVars, authVars, requests, listResp, randCalls, fileID,
                   imgVars, stdout, rampVars>>

\* main, lines 277-279
MainCheckImages ==
    /\ pc = "check_images"
    /\ IF ImagesEmpty(images)
       THEN Fatalf(<<"No images found in the specified folder">>)
       ELSE pc' = "select" /\ UNCHANGED <<exit, logs>>
    /\ UNCHANGED <<cfgVars, keyVars, authVars, netVars, listVars, imgVars, stdout,
                   rampVars>>

\* main, lines 281-282, and getRandomImage: rand.Intn(0) panics, and so does
\* the type assertion on an id that is no string
MainSelect ==
    /\ pc = "select"
    /\ randCalls' = Append(randCalls, Len(images))
    /\ IF Len(images) = 0
       THEN Panic /\ UNCHANGED fileID
       ELSE \E i \in 1..Len(images) :
              IF images[i].id = NoId
              THEN Panic /\ UNCHANGED fileID
              ELSE /\ fileID' = images[i].id
                   /\ pc' = "download_request"
                   /\ UNCHANGED <<exit, logs>>
    /\ UNCHANGED <<cfgVars, keyVars, authVars, netVars, listResp, images, imgVars,
                   stdout, rampVars>>

\* lines 189-197; main, lines 283-285
DownloadRequest ==
    /\ pc = "download_request"
    /\ requests' = SendRequest(requests, Request("download", BearerHeader(token)))
    /\ \/ /\ Fatalf(<<"Failed to download image", "failed to download file",
                      "transport error">>)
          /\ UNCHANGED <<bodies, respBody>>
       \/ \E b \in ImageData :
            /\ bodies' = OpenBody(bodies, "download")
            /\ respBody' = b
            /\ pc' = "download_read"
            /\ UNCHANGED <<exit, logs>>
    /\ UNCHANGED <<cfgVars, keyVars, authVars, listVars, imgVars, stdout, rampVars>>

\* line 199, and the deferred Close of line 197
DownloadRead ==
    /\ pc = "download_read"
    /\ \E readOk \in BOOLEAN :
         IF readOk
         THEN /\ imgData' = respBody
              /\ pc' = "decode_image"
              /\ UNCHANGED <<exit, logs>>
         ELSE /\ Fatalf(<<"Failed to download image", "unexpected EOF">>)
              /\ UNCHANGED imgData
    /\ bodies' = CloseBody(bodies, "download")
    /\ respBody' = NoBody
    /\ UNCHANGED <<cfgVars, keyVars, authVars, requests, listVars, grid, x, y, result,
                   stdout, rampVars>>

(***************************************************************************)
(* imageToASCII; main, lines 287-292.                                      *)
(***************************************************************************)
\* lines 203-212: image.Decode knows the registered formats only
DecodeImage ==
    /\ pc = "decode_image"
    /\ IF imgData.kind \notin RegisteredFormats
       THEN /\ Fatalf(<<"Failed to convert image to ASCII", "failed to decode image",
                        "image: unknown format">>)
            /\ UNCHANGED <<grid, x, y, result>>
       ELSE /\ grid' = DecodeResize(imgData, TargetWidth)
            /\ x' = 0
            /\ y' = 0
            /\ result' = <<>>
            /\ pc' = "render"
            /\ UNCHANGED <<exit, logs>>
    /\ UNCHANGED <<cfgVars, keyVars, authVars, netVars, listVars, imgData, stdout,
                   rampVars>>

\* lines 214-219: one pixel of the inner loop
RenderPixel ==
    /\ pc = "render"
    /\ y < grid.h
    /\ x < grid.w
    /\ LET p == PixelAt(grid, x, y)
           avg == Average(p)
       IN  IF RampIndex(avg) >= Len(chars)
           THEN Panic /\ UNCHANGED <<result, x>>
           ELSE /\ result' = Append(result, FgString(getASCIIChar(avg), p))
                /\ x' = x + 1
                /\ UNCHANGED <<pc, exit, logs>>
    /\ UNCHANGED <<cfgVars, keyVars, authVars, netVars, listVars, imgData, grid, y,
                   stdout, rampVars>>

\* faulty variant: the row ends without a line break
RenderRowEndNoBreak ==
    /\ pc = "render"
    /\ y < grid.h
    /\ x >= grid.w
    /\ x' = 0
    /\ y' = y + 1
    /\ UNCHANGED <<pc, exit, cfgVars, keyVars, authVars, netVars, listVars, imgData,
                   grid, result, stdout, logs, rampVars>>

\* line 220: the end of a row
RenderRowEnd ==
    /\ pc = "render"
    /\ y < grid.h
    /\ x >= grid.w
    /\ result' = Append(result, LineBreak)
    /\ x' = 0
    /\ y' = y + 1
    /\ UNCHANGED <<pc, exit, cfgVars, keyVars, authVars, netVars, listVars, imgData,
                   grid, stdout, logs, rampVars>>

\* line 223
RenderReturn ==
    /\ pc = "render"
    /\ y >= grid.h
    /\ pc' = "print"
    /\ UNCHANGED <<exit, cfgVars, keyVars, authVars, netVars, listVars, imgVars,
                   stdout, logs, rampVars>>

\* main, line 292
MainPrint ==
    /\ pc = "print"
    /\ stdout' = Append(stdout, ImageOut(result))
    /\ exit' = "ok"
    /\ pc' = "exit"
    /\ UNCHANGED <<cfgVars, keyVars, authVars, netVars, listVars, imgVars, logs,
                   rampVars>>

Next ==
    \/ MainOpenConfig
    \/ MainReadConfig
    \/ MainBuildConfig
    \/ NewBoxClientKey
    \/ AuthSign
    \/ AuthPost
    \/ AuthDecode
    \/ ListRequest
    \/ ListDecode
    \/ MainCheckImages
    \/ MainSelect
    \/ DownloadRequest
    \/ DownloadRead
    \/ DecodeImage

\* main() from its first line.  image.Decode fails on every input, so the
\* loop of imageToASCII and line 292 are never reached from here; they are
\* the steps of SpecRender.
Spec == Init /\ [][Next]_vars

(***************************************************************************)
(* NewBoxClient on an arbitrary key text: the process starts at the call   *)
(* and runs to the return of NewBoxClient.                                  *)
(***************************************************************************)
InitKey == \E k \in KeyTexts : Start("NewBoxClient", k) /\ NoRender /\ NoRamp

NextKey ==
    \/ NewBoxClientKey
    \/ AuthSign
    \/ AuthPost
    \/ AuthDecode

SpecKey == InitKey /\ [][NextKey]_vars

(***************************************************************************)
(* The render loop of imageToASCII on an arbitrary pixel grid, as after a   *)
(* successful image.Decode and resize.Resize, followed by line 292 of      *)
(* main; and getASCIIChar on an arbitrary pixel.                           *)
(***************************************************************************)
SmallSizes == (1..MaxSmall) \X (1..MaxSmall)

LargeSizes ==
    {<<1, TargetWidth>>, <<TargetWidth, 1>>, <<TargetWidth, AsciifyHeight>>}

\* small grids of every colouring of the model, large ones of one colouring
RenderGrids ==
    {Grid(s[1], s[2], c, d) : s \in SmallSizes, c \in 0..(Len(Palette) - 1), d \in {0, 1}}
        \cup {Grid(s[1], s[2], 0, 1) : s \in LargeSizes}

EdgeValues == {0, 1, 7281, 7282, 32767, 32768, 65534, 65535}

RampInputs ==
    {Rgb(v, v, v) : v \in 0..65535}
        \cup {Rgb(r, g, b) : r \in EdgeValues, g \in EdgeValues, b \in EdgeValues}

InitRender ==
    \/ \E g \in RenderGrids :
         /\ Start("render", <<>>)
         /\ grid = g /\ x = 0 /\ y = 0 /\ result = <<>>
         /\ NoRamp
    \/ \E p \in RampInputs :
         /\ Start("ramp", <<>>)
         /\ NoRender
         /\ pixel = p /\ glyph = [idx |-> -1, ch |-> ""]

\* lines 216-217 and 226-230 on the pixel (r, g, b)
ApplyRamp ==
    /\ pc = "ramp"
    /\ glyph' = [idx |-> RampIndex(Average(pixel)), ch |-> getASCIIChar(Average(pixel))]
    /\ pc' = "ramp_done"
    /\ UNCHANGED <<exit, cfgVars, keyVars, authVars, netVars, listVars, imgVars,
                   stdout, logs, pixel>>

NextRender ==
    \/ RenderPixel
    \/ RenderRowEnd
    \/ RenderReturn
    \/ MainPrint
    \/ ApplyRamp

SpecRender == InitRender /\ [][NextRender]_vars

(***************************************************************************)
(* Properties.                                                             *)
(***************************************************************************)
Range(f) == {f[i] : i \in DOMAIN f}

Count(op) == Cardinality({i \in 1..Len(requests) : requests[i].op = op})

ImageExtensions == {"jpg", "jpeg", "png", "gif"}

\* the body is not one well-formed JSON value, or is one without access_token
BadTokenBody(b) ==
    \/ b.kind \in {"malformed", "empty", "array", "null", "object+garbage"}
    \/ b.kind = "object" /\ b.field = "absent"

\* C1: once the token endpoint has answered with a body that is not well-formed
\* JSON, or that is JSON without the access_token field, authenticate returns an
\* error: the run ends in log.Fatalf, no token is stored and NewBoxClient
\* returns no client (nothing after it runs).
C1_AuthFailsOnBadBody ==
    (tokenResp.kind # "none" /\ pc # "auth_decode" /\ BadTokenBody(tokenResp))
        => (exit = "fatal" /\ pc = "exit" /\ Count("list") = 0)

ManualArmor(t) == <<BeginLine("PRIVATE KEY")>> \o t \o <<EndLine("PRIVATE KEY")>>

Unarmored(k) == k # <<>> /\ k[1].kind \notin {"BEGIN", "GLUED"}

IsBody(k) == \A i \in 1..Len(k) : k[i].kind = "B64"

KeyLoaded == pc # "NewBoxClient"

KeySucceeded == parsed.err = None /\ privateKey # "nil" /\ privateKey = parsed.key

\* the bytes are exactly one PKCS8 container holding an RSA key
IsRsaPkcs8(bytes) ==
    Len(bytes) = 1 /\ bytes[1].fmt = "PKCS8" /\ bytes[1].alg = "RSA"

\* the bytes start with a PKCS8 container holding an RSA key
StartsRsaPkcs8(bytes) ==
    Len(bytes) >= 1 /\ bytes[1].fmt = "PKCS8" /\ bytes[1].alg = "RSA"

IsRsaPkcs1(bytes) == Len(bytes) = 1 /\ bytes[1].fmt = "PKCS1"

\* C2 as stated: for a non-empty key text without the "-----BEGIN" prefix, key
\* loading succeeds exactly when the text is a PKCS8 body holding an RSA key
\* (so not for a PKCS1 body), and the result is that of parsing the text with
\* "PRIVATE KEY" armor added by hand.
C2_UnarmoredOnlyPkcs8 ==
    (KeyLoaded /\ Unarmored(config.PrivateKey)) =>
        /\ KeySucceeded <=> (IsBody(config.PrivateKey)
                             /\ IsRsaPkcs8(ConcatBlobs(config.PrivateKey)))
        /\ parsed = parsePrivateKey(ManualArmor(config.PrivateKey))

\* C2 amended: for a non-empty key text without the "-----BEGIN" prefix, key
\* loading succeeds exactly when the bytes of the first PEM block that decodes
\* from the armored text are a PKCS1 RSA key, or start with a PKCS8 container
\* holding an RSA key (bytes after the container are ignored); for a text that
\* is one base64 body these are the bytes of the body, and the key returned is
\* the key they start with.  The result is that of parsing the text with
\* "PRIVATE KEY" armor added by hand, and an unarmored PKCS1 body is accepted.
C2_UnarmoredPkcs1OrPkcs8 ==
    (KeyLoaded /\ Unarmored(config.PrivateKey)) =>
        LET k == config.PrivateKey
            block == pemDecode(ManualArmor(k))
        IN  /\ KeySucceeded <=>
                 (block.found /\ (IsRsaPkcs1(block.bytes) \/ StartsRsaPkcs8(block.bytes)))
            /\ IsBody(k) =>
                 /\ KeySucceeded <=>
                      (IsRsaPkcs1(ConcatBlobs(k)) \/ StartsRsaPkcs8(ConcatBlobs(k)))
                 /\ KeySucceeded => privateKey = ConcatBlobs(k)[1].key
            /\ parsed = parsePrivateKey(ManualArmor(k))
            /\ k = <<B64Line(<<Pkcs1Rsa>>)>> => KeySucceeded

\* an unarmored PKCS1 body was loaded, and its key is the client's key
C2_Witness ==
    /\ KeyLoaded
    /\ config.PrivateKey = <<B64Line(<<Pkcs1Rsa>>)>>
    /\ privateKey = Pkcs1Rsa.key
    /\ signed = "ok"

\* C3: key loading fails, and no token request is ever issued, on an empty key,
\* on a key text with no decodable PEM block, and on a PEM block holding a PKCS8
\* container with a non-RSA key (with or without bytes after it); the PKCS8 parser is consulted only after the
\* PKCS1 parser has failed, and the key returned is that of the first parser
\* that succeeded.
C3_KeyLoadingFailures ==
    KeyLoaded =>
        LET k == config.PrivateKey
            block == pemDecode(ArmorWrap(k))
            failed == /\ exit = "fatal" /\ pc = "exit" /\ privateKey = "nil"
                      /\ requests = <<>> /\ signed = "none"
        IN  /\ k = <<>> => failed /\ parsed.tried = <<>>
            /\ (k # <<>> /\ ~block.found) => failed /\ parsed.tried = <<"pem">>
            /\ (k # <<>> /\ block.found /\ Len(block.bytes) >= 1
                  /\ block.bytes[1].fmt = "PKCS8" /\ block.bytes[1].alg # "RSA")
                 => failed /\ parsed.err = "key is not an RSA private key"
            /\ "pkcs8" \in Range(parsed.tried) =>
                 /\ parsed.tried = <<"pem", "pkcs1", "pkcs8">>
                 /\ ~IsRsaPkcs1(block.bytes)
            /\ (k # <<>> /\ parsed.err = None) =>
                 /\ privateKey = parsed.key
                 /\ IsRsaPkcs1(block.bytes) =>
                      parsed.tried = <<"pem", "pkcs1">> /\ privateKey = block.bytes[1].key
                 /\ ~IsRsaPkcs1(block.bytes) =>
                      /\ StartsRsaPkcs8(block.bytes)
                      /\ parsed.tried = <<"pem", "pkcs1", "pkcs8">>
                      /\ privateKey = block.bytes[1].key

\* an armored PKCS8 container with an EC key was rejected after both parsers ran
C3_Witness ==
    /\ config.PrivateKey =
         <<BeginLine("PRIVATE KEY"), B64Line(<<Pkcs8Ec>>), EndLine("PRIVATE KEY")>>
    /\ exit = "fatal"
    /\ parsed.tried = <<"pem", "pkcs1", "pkcs8">>
    /\ parsed.err = "key is not an RSA private key"

\* C4: for a grid of width w >= 1 and height h >= 1 the render loop returns
\* exactly h lines, each of exactly w coloured glyphs followed by one line
\* break, rows from top to bottom and the pixels of a row from left to right.
C4_RenderShape ==
    (pc = "print" /\ grid.w >= 1 /\ grid.h >= 1) =>
        LET w == grid.w
            h == grid.h
        IN  /\ Len(result) = h * (w + 1)
            /\ \A r \in 0..(h - 1) :
                 /\ result[r * (w + 1) + w + 1] = LineBreak
                 /\ \A c \in 0..(w - 1) :
                      LET p == PixelAt(grid, c, r)
                          cell == result[r * (w + 1) + c + 1]
                      IN  /\ cell.ch \in Range(chars)
                          /\ cell = Cell(chars[((((p.r + p.g + p.b) \div 3) * 9) \div 65535) + 1],
                                         (p.r \div 256) % 256, (p.g \div 256) % 256,
                                         (p.b \div 256) % 256)

\* a grid of three rows of two pixels was rendered: nine cells
C4_Witness ==
    /\ pc = "print"
    /\ grid.w = 2
    /\ grid.h = 3
    /\ grid.step = 1
    /\ Len(result) = 9
    /\ result[3] = LineBreak

\* C5: for 16-bit channel values the glyph is ramp[((r+g+b) div 3) * 9 div 65535];
\* the index is within 0..9 and neither the sum nor the product overflows 32
\* bits; a grid of one colour gives the same glyph for every pixel; for a gray
\* value V the index at V is at least the index at V - 1, it is 0 at V = 0 and 9
\* at V = 65535.
C5_RampIndex ==
    /\ pc = "ramp_done" =>
         LET sum == pixel.r + pixel.g + pixel.b
             idx == (((sum \div 3) * 9) \div 65535)
             v == pixel.r
         IN  /\ FitsUint32(sum) /\ FitsUint32((sum \div 3) * 9)
             /\ glyph.idx = idx
             /\ glyph.idx \in 0..9
             /\ glyph.ch = chars[idx + 1]
             /\ (pixel.g = v /\ pixel.b = v) =>
                  /\ v = 0 => glyph.idx = 0
                  /\ v = 65535 => glyph.idx = 9
                  /\ v > 0 => RampIndex(Average(Rgb(v - 1, v - 1, v - 1))) <= glyph.idx
    /\ (pc = "print" /\ grid.step = 0) =>
         \A i, j \in 1..Len(result) :
            (result[i] # LineBreak /\ result[j] # LineBreak) => result[i] = result[j]

\* full white was mapped to the last glyph of the ramp
C5_Witness ==
    /\ pc = "ramp_done"
    /\ pixel = Rgb(65535, 65535, 65535)
    /\ glyph = [idx |-> 9, ch |-> "@"]

\* C6: nothing is written to standard output by a run that fails, and a run
\* that succeeds has written exactly one complete rendered image.
C6_NoOutputUnlessSuccess ==
    /\ exit \in {"fatal", "panic"} => stdout = <<>>
    /\ exit = "ok" => stdout = <<ImageOut(result)>>

TokenInText ==
    \/ \E i \in 1..Len(logs) : token \in Range(logs[i])
    \/ \E i \in 1..Len(stdout) :
         \/ stdout[i].text = token
         \/ \E j \in 1..Len(stdout[i].art) : stdout[i].art[j].ch = token

\* C7: a folder-listing or download request is sent only after authenticate has
\* returned success, and carries Authorization: Bearer <token>, the token being
\* the access_token of the token endpoint's answer in this run; the token is in
\* no log line and in no standard-output text.
C7_BearerTokenOnly ==
    /\ \A i \in 1..Len(requests) :
         requests[i].op \in {"list", "download"} =>
            /\ \E j \in 1..(i - 1) : requests[j].op = "token"
            /\ signed = "ok"
            /\ bodies["token"] = "closed"
            /\ DecodeAccessToken(tokenResp).ok
            /\ token = DecodeAccessToken(tokenResp).value
            /\ requests[i].auth.scheme = "Bearer"
            /\ requests[i].auth.cred = token
    /\ \A i \in 1..Len(requests) :
         requests[i].op = "token" => requests[i].auth = NoAuth
    /\ token # "" => ~TokenInText

\* a download failed after the token was used for both requests
C7_Witness ==
    /\ token \in Tokens
    /\ Count("list") = 1
    /\ Count("download") = 1
    /\ exit = "fatal"
    /\ logs # <<>>

NoImageEntries(b) ==
    \A i \in 1..Len(b.entries) : b.entries[i].extension \notin ImageExtensions

\* C8: getRandomImage is never called with an empty list: when the listing has
\* no entry with extension jpg, jpeg, png or gif the run ends with an error
\* before getRandomImage or downloadImage is called; a download follows a
\* selection.
C8_EmptyListChecked ==
    /\ \A i \in 1..Len(randCalls) : randCalls[i] > 0
    /\ (listResp.kind = "object" /\ NoImageEntries(listResp)
          /\ pc \notin {"list_decode", "check_images"})
         => (exit = "fatal" /\ randCalls = <<>> /\ Count("download") = 0)
    /\ \A i \in 1..Len(images) : images[i].extension \in ImageExtensions
    /\ Count("download") > 0 => Len(randCalls) = 1

\* a listing of two entries, neither an image, ended the run
C8_Witness ==
    /\ listResp.kind = "object"
    /\ Len(listResp.entries) = 2
    /\ NoImageEntries(listResp)
    /\ exit = "fatal"
    /\ logs = <<(<<"No images found in the specified folder">>)>>

DecodePc(op) ==
    CASE op = "token" -> "auth_decode"
      [] op = "list" -> "list_decode"
      [] OTHER -> "download_read"

\* C9: a response body is open only while its operation reads it: once
\* authenticate, getImagesFromFolder or downloadImage has returned, with or
\* without an error, the body of the response it received is closed.
C9_BodiesClosed ==
    \A op \in Ops :
        /\ bodies[op] = "open" => pc = DecodePc(op)
        /\ (Count(op) = 1 /\ pc = DecodePc(op)) => bodies[op] = "open"
        /\ bodies[op] # "none" => Count(op) = 1

\* authenticate failed on a body that is not JSON, and closed it
C9_Witness ==
    /\ tokenResp.kind = "malformed"
    /\ exit = "fatal"
    /\ bodies["token"] = "closed"

\* C10: at most one request of each kind is sent in a run; authenticate sends
\* exactly one request when signing succeeded and none when it failed.
C10_NoRetry ==
    /\ \A op \in Ops : Count(op) <= 1
    /\ signed = "fail" => requests = <<>>
    /\ (signed = "ok" /\ pc # "auth_post") => Count("token") = 1
    /\ signed = "none" => requests = <<>>

\* a run that got as far as image.Decode sent three requests, one of each kind
C10_Witness ==
    /\ pc = "exit"
    /\ imgData.kind \in ImageFormats
    /\ Len(requests) = 3
    /\ Count("token") = 1
    /\ Count("list") = 1
    /\ Count("download") = 1

====
